---- MODULE Spec2Model ----
(***************************************************************************)
(* State-machine model of src/server.js: the Express backend that reads   *)
(* occupied dates from one Google calendar (GET /disponibilidad), inserts  *)
(* reservations into it (POST /agendar) and probes it (GET /test-calendar).*)
(*                                                                         *)
(* Every request is a little process: it arrives, runs the synchronous    *)
(* part of its handler up to the next await, and is resumed when the      *)
(* awaited call of the google client returns or throws.  The calendar     *)
(* service, the credential file, the clock, the server's time zone and    *)
(* Math.random are the environment.                                        *)
(*                                                                         *)
(* Time values are whole hours since 2024-06-01T00:00:00Z.  Strings that   *)
(* the code slices or pattern-matches are sequences of one-character      *)
(* strings; strings it only passes along are TLA+ strings.                 *)
(***************************************************************************)
EXTENDS Integers, Sequences, FiniteSets, TLC

VARIABLES
    pc,         \* request -> where its handler is
    route,      \* request -> the route it came in on
    body,       \* request -> req.body (POST /agendar)
    cred,       \* request -> scopes of the GoogleAuth its handler built
    calls,      \* request -> the external calls it made, with their results
    responses,  \* request -> the responses it sent
    calendar,   \* the events the calendar service holds
    tz          \* the time zone the server process runs in

vars == <<pc, route, body, cred, calls, responses, calendar, tz>>

----------------------------------------------------------------------------
(* Bounds of the model *)

\* concurrent requests
NumReqs == 2
\* day numbers 0..MaxDay are the dates all-day events use
MaxDay == 4
\* events in the calendar when availability of all-day events is computed
MaxEvents == 2
\* day numbers 0..MaxTimedDay are the dates date-time events use
MaxTimedDay == 2
\* base-36 digits in the fraction that Math.random().toString(36) prints
MaxRndDigits == 7

Reqs == 1..NumReqs

----------------------------------------------------------------------------
(* Configuration *)

CALENDAR_ID == "33f2b860648ddfba6f555ad436e9546153c69c1391de0143aad37415e76bc6a8@group.calendar.google.com"

SCOPE_CALENDAR == "https://www.googleapis.com/auth/calendar"
SCOPE_READONLY == "https://www.googleapis.com/auth/calendar.readonly"
SCOPE_EVENTS   == "https://www.googleapis.com/auth/calendar.events"

----------------------------------------------------------------------------
(* Dates.  new Date("YYYY-MM-DD") is that day's midnight in UTC;           *)
(* toISOString().split('T')[0] is the UTC calendar date of a time value;   *)
(* getDate/setDate work on the server's local calendar.                    *)

\* the ISO strings of day 0, 1, 2, ...
DateStrings ==
    << "2024-06-01", "2024-06-02", "2024-06-03", "2024-06-04", "2024-06-05",
       "2024-06-06", "2024-06-07", "2024-06-08", "2024-06-09", "2024-06-10",
       "2024-06-11", "2024-06-12" >>

DayOf(s) == (CHOOSE i \in 1..Len(DateStrings) : DateStrings[i] = s) - 1

\* new Date(s) for a date-only string
ParseDate(s) == 24 * DayOf(s)

\* new Date(s) for an RFC 3339 date-time: the local fields less the offset
ParseDateTime(dt) == 24 * DayOf(dt.date) + dt.hour - dt.offset

\* fechaActual.toISOString().split('T')[0]
ToISODate(t) == DateStrings[(t \div 24) + 1]

\* The zones the server may run in: offset `off` before the UTC hour `at`,
\* off + delta from then on (delta = 0: no transition).
TimeZones ==
    { [off |->  0, at |-> 0,  delta |->  0],     \* UTC
      [off |-> -4, at |-> 52, delta |->  1],     \* clocks go forward, west of UTC
      [off |-> -3, at |-> 51, delta |-> -1],     \* clocks go back, west of UTC
      [off |->  1, at |-> 49, delta |->  1],     \* clocks go forward, east of UTC
      [off |->  2, at |-> 49, delta |-> -1],     \* clocks go back, east of UTC
      [off |->  0, at |-> 49, delta |->  1],     \* clocks go forward, on UTC in winter
      [off |->  1, at |-> 49, delta |-> -1],     \* clocks go back: UTC midnight is repeated
      [off |->  2, at |-> 48, delta |->  1] }    \* clocks go forward: UTC midnight is skipped

UTCZone == [off |-> 0, at |-> 0, delta |-> 0]

\* LocalTime(t): the local time value of the UTC time value t
LocalTime(zone, t) ==
    t + (IF t >= zone.at THEN zone.off + zone.delta ELSE zone.off)

\* UTC(t): a local time that is skipped or repeated at the transition is
\* read with the offset before the transition
UTCOf(zone, tl) ==
    LET later == IF zone.delta > 0 THEN zone.off + zone.delta ELSE zone.off
    IN  tl - (IF tl < zone.at + later THEN zone.off ELSE zone.off + zone.delta)

\* fechaActual.setDate(fechaActual.getDate() + 1): one local calendar day on
SetDateNext(zone, t) == UTCOf(zone, LocalTime(zone, t) + 24)

\* (mutant) a date-time cut down to its date before the walk
NewDateTruncated(when) ==
    IF "date" \in DOMAIN when THEN ParseDate(when.date)
    ELSE ParseDate(when.dateTime.date)

\* new Date(evento.start.date || evento.start.dateTime)
NewDate(when) ==
    IF "date" \in DOMAIN when THEN ParseDate(when.date)
    ELSE ParseDateTime(when.dateTime)

RECURSIVE WalkDatesInclusive(_, _, _)
\* (mutant) the walk with `<=` for `<`: the end date is pushed too
WalkDatesInclusive(zone, fechaActual, fin) ==
    IF fechaActual <= fin
    THEN <<ToISODate(fechaActual)>>
            \o WalkDatesInclusive(zone, SetDateNext(zone, fechaActual), fin)
    ELSE <<>>

RECURSIVE WalkDates(_, _, _)
\* the while loop: push the date of fechaActual, step a day, until fin
WalkDates(zone, fechaActual, fin) ==
    IF fechaActual < fin
    THEN <<ToISODate(fechaActual)>> \o WalkDates(zone, SetDateNext(zone, fechaActual), fin)
    ELSE <<>>

RECURSIVE FechasOcupadas(_, _)
\* eventos.forEach(...): the dates of every event, in order, repeats kept
FechasOcupadas(zone, eventos) ==
    IF eventos = <<>> THEN <<>>
    ELSE WalkDates(zone, NewDate(Head(eventos).start), NewDate(Head(eventos).end))
            \o FechasOcupadas(zone, Tail(eventos))

Range(s) == { s[i] : i \in 1..Len(s) }

RECURSIVE DropRepeats(_, _)
DropRepeats(s, seen) ==
    IF s = <<>> THEN <<>>
    ELSE IF Head(s) \in seen THEN DropRepeats(Tail(s), seen)
    ELSE <<Head(s)>> \o DropRepeats(Tail(s), seen \cup {Head(s)})

\* (mutant) the list sent as it was pushed
FechasRepetidas(fechasOcupadas) == fechasOcupadas

\* [...new Set(fechasOcupadas)]: first occurrences, in order
FechasUnicas(fechasOcupadas) == DropRepeats(fechasOcupadas, {})

RECURSIVE OrderByStart(_)
\* orderBy: 'startTime' (the service's reply is sorted by start, stably)
OrderByStart(evs) ==
    IF evs = <<>> THEN <<>>
    ELSE LET m == CHOOSE i \in 1..Len(evs) :
                    /\ \A j \in 1..Len(evs) : NewDate(evs[i].start) <= NewDate(evs[j].start)
                    /\ \A j \in 1..(i - 1) : NewDate(evs[j].start) > NewDate(evs[i].start)
         IN  <<evs[m]>> \o OrderByStart(SubSeq(evs, 1, m - 1) \o SubSeq(evs, m + 1, Len(evs)))

----------------------------------------------------------------------------
(* JavaScript values that the code tests for truthiness or compares with   *)
(* ===: a type tag and the printed value.                                  *)

Undefined == [t |-> "undefined", v |-> ""]
Str(s)    == [t |-> "string", v |-> s]
Num(s)    == [t |-> "number", v |-> s]

\* !x is false
Truthy(x) ==
    ~ \/ x.t \in {"undefined", "null"}
      \/ x.t = "string" /\ x.v = ""
      \/ x.t = "number" /\ x.v \in {"0", "-0", "NaN"}
      \/ x.t = "boolean" /\ x.v = "false"

\* the errors the google client throws
ErrKeyFile     == [message |-> "ENOENT: no such file or directory, open './service-account-key.json'",
                   code |-> Str("ENOENT")]
ErrCredentials == [message |-> "Invalid Credentials", code |-> Num("401")]
ErrForbidden   == [message |-> "You need to have writer access to this calendar.", code |-> Num("403")]
ErrNotFound    == [message |-> "Not Found", code |-> Num("404")]
ErrBackend     == [message |-> "Backend Error", code |-> Num("500")]
\* what reading .length of undefined throws
ErrTypeError   == [message |-> "Cannot read properties of undefined (reading 'length')",
                   code |-> Undefined]

\* auth.getClient() fails on the key file; an API call fails on the token or the request
GetClientErrors == {ErrKeyFile}
ApiErrors       == {ErrCredentials, ErrForbidden, ErrNotFound, ErrBackend}

----------------------------------------------------------------------------
(* The reservation code *)

Base36Chars ==
    << "0", "1", "2", "3", "4", "5", "6", "7", "8", "9", "a", "b", "c", "d", "e", "f", "g", "h",
       "i", "j", "k", "l", "m", "n", "o", "p", "q", "r", "s", "t", "u", "v", "w", "x", "y", "z" >>

UpperChars ==
    << "0", "1", "2", "3", "4", "5", "6", "7", "8", "9", "A", "B", "C", "D", "E", "F", "G", "H",
       "I", "J", "K", "L", "M", "N", "O", "P", "Q", "R", "S", "T", "U", "V", "W", "X", "Y", "Z" >>

RECURSIVE DecimalString(_)
\* `${n}` for a number n >= 0
DecimalString(n) ==
    IF n < 10 THEN <<Base36Chars[n + 1]>>
    ELSE DecimalString(n \div 10) \o <<Base36Chars[(n % 10) + 1]>>

\* x.toString(36) for 0 <= x < 1, x given by the base-36 digits of its fraction
\* as toString prints them (none for 0, never a trailing 0)
ToString36(digits) ==
    IF digits = <<>> THEN <<"0">>
    ELSE <<"0", ".">> \o [i \in 1..Len(digits) |-> Base36Chars[digits[i] + 1]]

Min(a, b) == IF a < b THEN a ELSE b

\* s.substr(start, length)
Substr(s, start, length) ==
    IF start >= Len(s) THEN <<>>
    ELSE SubSeq(s, start + 1, Min(Len(s), start + length))

\* s.toUpperCase()
ToUpperCase(s) ==
    [i \in 1..Len(s) |->
        IF \E k \in 1..Len(Base36Chars) : Base36Chars[k] = s[i]
        THEN UpperChars[CHOOSE k \in 1..Len(Base36Chars) : Base36Chars[k] = s[i]]
        ELSE s[i]]

\* `CB-${new Date().getFullYear()}-${Math.random().toString(36).substr(2, 6).toUpperCase()}`
ReservationCode(year, random) ==
    <<"C", "B", "-">> \o DecimalString(year) \o <<"-">>
        \o ToUpperCase(Substr(ToString36(random), 2, 6))

----------------------------------------------------------------------------
(* What every handler does with its request's state *)

\* the call the handler waits on comes back
CallBack(r, result) ==
    calls' = [calls EXCEPT ![r][Len(calls[r])].result = result]

\* new GoogleAuth({scopes}) and auth.getClient()
GetClient(r, scopes) ==
    /\ cred' = [cred EXCEPT ![r] = scopes]
    /\ calls' = [calls EXCEPT ![r] = Append(@, [op |-> "getClient", scopes |-> scopes,
                                                 result |-> [kind |-> "pending"]])]
    /\ pc' = [pc EXCEPT ![r] = "getClient"]

\* res.status(status).json(payload), after which the handler returns
Respond(r, status, payload) ==
    /\ responses' = [responses EXCEPT ![r] = Append(@, [status |-> status, body |-> payload])]
    /\ pc' = [pc EXCEPT ![r] = "done"]

Failed(error) == [kind |-> "error", error |-> error]

----------------------------------------------------------------------------
(* GET /disponibilidad *)

\* the scopes the handler asks for
DisponibilidadScopes == {SCOPE_CALENDAR}

\* the catch block
DisponibilidadError(error) ==
    [success |-> FALSE, error |-> error.message,
     message |-> "Error al obtener la disponibilidad del calendario"]

\* the payload of a reply whose items are eventos
DisponibilidadPayload(zone, eventos) ==
    [success |-> TRUE,
     fechasOcupadas |-> FechasUnicas(FechasOcupadas(zone, eventos)),
     totalEventos |-> Len(eventos),
     calendarId |-> CALENDAR_ID]

\* the request arrives; the handler runs to await auth.getClient()
DisponibilidadStart(r) ==
    /\ pc[r] = "idle"
    /\ route' = [route EXCEPT ![r] = "/disponibilidad"]
    /\ GetClient(r, DisponibilidadScopes)
    /\ UNCHANGED <<body, responses, calendar, tz>>

\* getClient resolves; the handler runs to await calendar.events.list(...)
DisponibilidadList(r) ==
    /\ pc[r] = "getClient" /\ route[r] = "/disponibilidad"
    /\ calls' = [calls EXCEPT ![r] =
                    Append([@ EXCEPT ![Len(@)].result = [kind |-> "ok"]],
                           [op |-> "events.list", scopes |-> cred[r],
                            calendarId |-> CALENDAR_ID, singleEvents |-> TRUE,
                            orderBy |-> "startTime", result |-> [kind |-> "pending"]])]
    /\ pc' = [pc EXCEPT ![r] = "events.list"]
    /\ UNCHANGED <<route, body, cred, responses, calendar, tz>>

\* events.list resolves with the calendar's events; the dates are walked and sent
DisponibilidadReply(r) ==
    /\ pc[r] = "events.list"
    /\ CallBack(r, [kind |-> "ok", items |-> OrderByStart(calendar)])
    /\ Respond(r, 200, DisponibilidadPayload(tz, OrderByStart(calendar)))
    /\ UNCHANGED <<route, body, cred, calendar, tz>>

\* (mutant) the TypeError of eventos.length escapes the handler: no response
DisponibilidadNoItemsUncaught(r) ==
    /\ pc[r] = "events.list"
    /\ CallBack(r, [kind |-> "ok"])
    /\ pc' = [pc EXCEPT ![r] = "crashed"]
    /\ UNCHANGED <<route, body, cred, responses, calendar, tz>>

\* events.list resolves with no items list: eventos.length throws inside the try
DisponibilidadNoItems(r) ==
    /\ pc[r] = "events.list"
    /\ CallBack(r, [kind |-> "ok"])
    /\ Respond(r, 500, DisponibilidadError(ErrTypeError))
    /\ UNCHANGED <<route, body, cred, calendar, tz>>

\* getClient or events.list rejects
DisponibilidadCatch(r, error) ==
    /\ route[r] = "/disponibilidad"
    /\ \/ pc[r] = "getClient" /\ error \in GetClientErrors
       \/ pc[r] = "events.list" /\ error \in ApiErrors
    /\ CallBack(r, Failed(error))
    /\ Respond(r, 500, DisponibilidadError(error))
    /\ UNCHANGED <<route, body, cred, calendar, tz>>

----------------------------------------------------------------------------
(* GET /test-calendar *)

TestCalendarScopes == {SCOPE_READONLY}

TestCalendarError(error) ==
    [success |-> FALSE, error |-> error.message, message |-> "Error accediendo al calendario"]

TestCalendarStart(r) ==
    /\ pc[r] = "idle"
    /\ route' = [route EXCEPT ![r] = "/test-calendar"]
    /\ GetClient(r, TestCalendarScopes)
    /\ UNCHANGED <<body, responses, calendar, tz>>

\* getClient resolves; the handler runs to await calendar.calendars.get(...)
TestCalendarGet(r) ==
    /\ pc[r] = "getClient" /\ route[r] = "/test-calendar"
    /\ calls' = [calls EXCEPT ![r] =
                    Append([@ EXCEPT ![Len(@)].result = [kind |-> "ok"]],
                           [op |-> "calendars.get", scopes |-> cred[r],
                            calendarId |-> CALENDAR_ID, result |-> [kind |-> "pending"]])]
    /\ pc' = [pc EXCEPT ![r] = "calendars.get"]
    /\ UNCHANGED <<route, body, cred, responses, calendar, tz>>

\* calendars.get resolves with the calendar's metadata
TestCalendarReply(r, data) ==
    /\ pc[r] = "calendars.get"
    /\ CallBack(r, [kind |-> "ok", data |-> data])
    /\ Respond(r, 200, [success |-> TRUE,
                        calendar |-> [id |-> data.id, summary |-> data.summary,
                                      timeZone |-> data.timeZone, access |-> data.accessRole]])
    /\ UNCHANGED <<route, body, cred, calendar, tz>>

TestCalendarCatch(r, error) ==
    /\ route[r] = "/test-calendar"
    /\ \/ pc[r] = "getClient" /\ error \in GetClientErrors
       \/ pc[r] = "calendars.get" /\ error \in ApiErrors
    /\ CallBack(r, Failed(error))
    /\ Respond(r, 500, TestCalendarError(error))
    /\ UNCHANGED <<route, body, cred, calendar, tz>>

----------------------------------------------------------------------------
(* POST /agendar *)

AgendarScopes == {SCOPE_READONLY, SCOPE_EVENTS}

\* const { checkInDate, ... } = req.body: a field the body lacks is undefined
Field(b, f) == IF f \in DOMAIN b THEN b[f] ELSE Undefined

\* (mutant) the validation without the test of email
FaltanCamposSinEmail(b) ==
    \/ ~Truthy(Field(b, "checkInDate"))
    \/ ~Truthy(Field(b, "checkOutDate"))
    \/ ~Truthy(Field(b, "name"))
    \/ ~Truthy(Field(b, "phone"))
    \/ ~Truthy(Field(b, "guests"))

\* (mutant) the validation with a range check of guests
FaltanCamposConRango(b) ==
    \/ ~Truthy(Field(b, "checkInDate"))
    \/ ~Truthy(Field(b, "checkOutDate"))
    \/ ~Truthy(Field(b, "name"))
    \/ ~Truthy(Field(b, "email"))
    \/ ~Truthy(Field(b, "phone"))
    \/ ~Truthy(Field(b, "guests"))
    \/ Field(b, "guests") \in {Num("-1"), Num("1000000")}

\* !checkInDate || !checkOutDate || !name || !email || !phone || !guests
FaltanCampos(b) ==
    \/ ~Truthy(Field(b, "checkInDate"))
    \/ ~Truthy(Field(b, "checkOutDate"))
    \/ ~Truthy(Field(b, "name"))
    \/ ~Truthy(Field(b, "email"))
    \/ ~Truthy(Field(b, "phone"))
    \/ ~Truthy(Field(b, "guests"))

\* the event the handler builds from a body that passed the validation
Evento(b) ==
    [summary |-> <<"Reserva Cabana: ", Field(b, "name").v>>,
     description |-> [nombre |-> Field(b, "name").v, email |-> Field(b, "email").v,
                      telefono |-> Field(b, "phone").v, huespedes |-> Field(b, "guests").v,
                      checkIn |-> Field(b, "checkInDate").v,
                      checkOut |-> Field(b, "checkOutDate").v,
                      mensaje |-> IF Truthy(Field(b, "message")) THEN Field(b, "message").v
                                  ELSE "No especificado"],
     start |-> [date |-> Field(b, "checkInDate").v, timeZone |-> "America/Santiago"],
     end |-> [date |-> Field(b, "checkOutDate").v, timeZone |-> "America/Santiago"],
     colorId |-> "2"]

\* (mutant) the two hints the wrong way round
AgendarErrorMessageSwapped(error) ==
    IF error.code = Num("404")
    THEN "Error de permisos. Verifica que el Service Account tenga acceso al calendario."
    ELSE IF error.code = Num("403")
    THEN "Calendario no encontrado. Verifica el Calendar ID."
    ELSE "Error al crear la reserva en el calendario"

\* errorMessage of the catch block
AgendarErrorMessage(error) ==
    IF error.code = Num("403")
    THEN "Error de permisos. Verifica que el Service Account tenga acceso al calendario."
    ELSE IF error.code = Num("404")
    THEN "Calendario no encontrado. Verifica el Calendar ID."
    ELSE "Error al crear la reserva en el calendario"

\* the catch block
AgendarError(error) ==
    [success |-> FALSE, error |-> error.message, message |-> AgendarErrorMessage(error),
     details |-> [code |-> error.code, calendarId |-> CALENDAR_ID]]

\* the request arrives with body b: rejected at once, or the handler runs to
\* await auth.getClient()
AgendarStart(r, b) ==
    /\ pc[r] = "idle"
    /\ route' = [route EXCEPT ![r] = "/agendar"]
    /\ body' = [body EXCEPT ![r] = b]
    /\ IF FaltanCampos(b)
       THEN /\ Respond(r, 400, [success |-> FALSE, message |-> "Faltan campos requeridos"])
            /\ UNCHANGED <<cred, calls>>
       ELSE /\ GetClient(r, AgendarScopes)
            /\ UNCHANGED responses
    /\ UNCHANGED <<calendar, tz>>

\* getClient resolves; the handler builds the event and runs to
\* await calendar.events.insert(...)
AgendarInsert(r) ==
    /\ pc[r] = "getClient" /\ route[r] = "/agendar"
    /\ calls' = [calls EXCEPT ![r] =
                    Append([@ EXCEPT ![Len(@)].result = [kind |-> "ok"]],
                           [op |-> "events.insert", scopes |-> cred[r],
                            calendarId |-> CALENDAR_ID, resource |-> Evento(body[r]),
                            result |-> [kind |-> "pending"]])]
    /\ pc' = [pc EXCEPT ![r] = "events.insert"]
    /\ UNCHANGED <<route, body, cred, responses, calendar, tz>>

\* (mutant) the reservation is refused when the calendar already holds an event
\* for the same dates
AgendarReplyExclusive(r, year, random) ==
    /\ pc[r] = "events.insert"
    /\ LET resource == calls[r][Len(calls[r])].resource
           id == Len(calendar) + 1
           data == [id |-> id, htmlLink |-> <<"https://www.google.com/calendar/event?eid=", id>>]
       IN  IF \E i \in 1..Len(calendar) :
                    calendar[i].start = resource.start /\ calendar[i].end = resource.end
           THEN /\ CallBack(r, [kind |-> "ok"])
                /\ Respond(r, 409, [success |-> FALSE, message |-> "Fechas no disponibles"])
                /\ UNCHANGED calendar
           ELSE /\ calendar' = Append(calendar, resource @@ [id |-> id])
                /\ CallBack(r, [kind |-> "ok", data |-> data])
                /\ Respond(r, 200, [success |-> TRUE, eventId |-> data.id,
                                    reservationCode |-> ReservationCode(year, random),
                                    message |-> "Reserva creada exitosamente en Google Calendar",
                                    eventLink |-> data.htmlLink])
    /\ UNCHANGED <<route, body, cred, tz>>

\* events.insert resolves: the service holds the event under a fresh id; the
\* handler draws the reservation code from the clock's year and Math.random()
AgendarReply(r, year, random) ==
    /\ pc[r] = "events.insert"
    /\ LET resource == calls[r][Len(calls[r])].resource
           id == Len(calendar) + 1
           data == [id |-> id, htmlLink |-> <<"https://www.google.com/calendar/event?eid=", id>>]
       IN  /\ calendar' = Append(calendar, resource @@ [id |-> id])
           /\ CallBack(r, [kind |-> "ok", data |-> data])
           /\ Respond(r, 200, [success |-> TRUE, eventId |-> data.id,
                               reservationCode |-> ReservationCode(year, random),
                               message |-> "Reserva creada exitosamente en Google Calendar",
                               eventLink |-> data.htmlLink])
    /\ UNCHANGED <<route, body, cred, tz>>

\* getClient or events.insert rejects
AgendarCatch(r, error) ==
    /\ route[r] = "/agendar"
    /\ \/ pc[r] = "getClient" /\ error \in GetClientErrors
       \/ pc[r] = "events.insert" /\ error \in ApiErrors
    /\ CallBack(r, Failed(error))
    /\ Respond(r, 500, AgendarError(error))
    /\ UNCHANGED <<route, body, cred, calendar, tz>>

----------------------------------------------------------------------------
(* The environment's inputs *)

\* a field the JSON body does not carry
Absent == [t |-> "absent", v |-> ""]

\* the body that carries the fields of `choice` that are not Absent
BodyOf(choice) == [f \in {g \in DOMAIN choice : choice[g] # Absent} |-> choice[f]]

Null == [t |-> "null", v |-> ""]

\* request bodies: every field absent, empty or filled; guests also null, 0,
\* negative, huge, "0"
Bodies ==
    { BodyOf(c) : c \in
        [checkInDate  : {Absent, Str(""), Str("2024-06-01"), Str("2024-06-03")},
         checkOutDate : {Absent, Str(""), Str("2024-06-01"), Str("2024-06-03")},
         name         : {Absent, Str(""), Str("Ana")},
         email        : {Absent, Str(""), Str("ana@example.com")},
         phone        : {Absent, Str(""), Str("+56 9 1234 5678")},
         guests       : {Absent, Null, Str(""), Str("0"), Num("0"), Num("2"), Num("-1"),
                         Num("1000000")},
         message      : {Absent, Str("Llegamos tarde")}] }

\* the bodies of the concurrent requests: two complete ones for the same range,
\* one without email
FewBodies ==
    { BodyOf(c) : c \in
        [checkInDate  : {Str("2024-06-01")},
         checkOutDate : {Str("2024-06-03")},
         name         : {Str("Ana"), Str("Luis")},
         email        : {Str("reservas@example.com")},
         phone        : {Str("+56 9 1234 5678")},
         guests       : {Num("2")},
         message      : {Absent}] }
    \cup { [checkInDate |-> Str("2024-06-01"), checkOutDate |-> Str("2024-06-03"),
            name |-> Str("Ana"), phone |-> Str("+56 9 1234 5678"), guests |-> Num("2")] }

\* what calendars.get answers
CalendarData ==
    [id |-> CALENDAR_ID, summary |-> "Reservas", timeZone |-> "America/Santiago",
     accessRole |-> "writer"]

Errors == GetClientErrors \cup ApiErrors

\* the years the clock may show
Years == {2024, 2026}

\* Math.random(): the base-36 digits toString(36) prints after "0."
RndDigits == {0, 18}

RndValues ==
    { d \in UNION { [1..n -> RndDigits] : n \in 0..MaxRndDigits } :
        d # <<>> => d[Len(d)] # 0 }

\* a value whose fraction prints with more than six digits
RndLong == <<18, 0, 18, 18, 0, 0, 18>>

AllDay(d1, d2) == [start |-> [date |-> DateStrings[d1 + 1]], end |-> [date |-> DateStrings[d2 + 1]]]

\* all-day events: start and end dates, the end not before the start
AllDayEvents == UNION { { AllDay(d1, d2) : d2 \in d1..MaxDay } : d1 \in 0..MaxDay }

\* the hours of the day and the UTC offsets date-time events carry
TimesOfDay == {10, 15, 18, 23}
EventOffsets == {0, -4}

DateTime(d, h, o) == [dateTime |-> [date |-> DateStrings[d + 1], hour |-> h, offset |-> o]]

\* date-time events: start and end in one offset, the end not before the start
TimedEvents ==
    { ev \in { [start |-> DateTime(d1, h1, o), end |-> DateTime(d2, h2, o)] :
                 d1 \in 0..MaxTimedDay, d2 \in 0..MaxTimedDay,
                 h1 \in TimesOfDay, h2 \in TimesOfDay, o \in EventOffsets } :
        NewDate(ev.start) <= NewDate(ev.end) }

SeqsUpTo(S, n) == UNION { [1..k -> S] : k \in 0..n }

----------------------------------------------------------------------------
(* The server between requests *)

Idle ==
    /\ pc = [r \in Reqs |-> "idle"]
    /\ route = [r \in Reqs |-> ""]
    /\ body = [r \in Reqs |-> <<>>]
    /\ cred = [r \in Reqs |-> {}]
    /\ calls = [r \in Reqs |-> <<>>]
    /\ responses = [r \in Reqs |-> <<>>]

(* Concurrent requests on all three routes against a calendar that starts empty *)

Init ==
    /\ Idle
    /\ calendar = <<>>
    /\ tz = UTCZone

Step(r) ==
    \/ DisponibilidadStart(r)
    \/ DisponibilidadList(r)
    \/ DisponibilidadReply(r)
    \/ DisponibilidadNoItems(r)
    \/ \E error \in Errors : DisponibilidadCatch(r, error)
    \/ TestCalendarStart(r)
    \/ TestCalendarGet(r)
    \/ TestCalendarReply(r, CalendarData)
    \/ \E error \in Errors : TestCalendarCatch(r, error)
    \/ \E b \in FewBodies : AgendarStart(r, b)
    \/ AgendarInsert(r)
    \/ AgendarReply(r, 2024, RndLong)
    \/ \E error \in Errors : AgendarCatch(r, error)

Next == \E r \in Reqs : Step(r)

Spec == Init /\ [][Next]_vars

\* every request that has arrived is answered once its calls return: a handler
\* step that is enabled is a pending callback of the event loop
FairSpec == Spec /\ \A r \in Reqs : WF_vars(pc[r] # "idle" /\ Step(r))

----------------------------------------------------------------------------
(* One POST /agendar with any body, any failure, any clock and random value *)

NextAgendar ==
    \/ \E b \in Bodies : AgendarStart(1, b)
    \/ AgendarInsert(1)
    \/ \E year \in Years, random \in RndValues : AgendarReply(1, year, random)
    \/ \E error \in Errors : AgendarCatch(1, error)

SpecAgendar == Init /\ [][NextAgendar]_vars

----------------------------------------------------------------------------
(* One GET /disponibilidad against any calendar, the server in any zone *)

NextDisponibilidad ==
    \/ DisponibilidadStart(1)
    \/ DisponibilidadList(1)
    \/ DisponibilidadReply(1)
    \/ DisponibilidadNoItems(1)
    \/ \E error \in Errors : DisponibilidadCatch(1, error)

InitAllDay ==
    /\ Idle
    /\ calendar \in SeqsUpTo(AllDayEvents, MaxEvents)
    /\ tz \in TimeZones

SpecAllDay == InitAllDay /\ [][NextDisponibilidad]_vars

InitTimed ==
    /\ Idle
    /\ calendar \in SeqsUpTo(TimedEvents, 1)
    /\ tz \in TimeZones

SpecTimed == InitTimed /\ [][NextDisponibilidad]_vars

----------------------------------------------------------------------------
(* Properties *)

Done(r) == pc[r] = "done"

\* the response of a request that was answered
Response(r) == responses[r][1]

\* request r was answered with status
Answered(r, status) == Done(r) /\ responses[r] # <<>> /\ Response(r).status = status

Days == 0..(Len(DateStrings) - 1)

\* the all-day event ev covers day d: start <= d < end
CoversDay(ev, d) == DayOf(ev.start.date) <= d /\ d < DayOf(ev.end.date)

C2_NoDateTwice ==
    Answered(1, 200) =>
        LET fechas == Response(1).body.fechasOcupadas
        IN  \A i, j \in 1..Len(fechas) : fechas[i] = fechas[j] => i = j

\* [06-01, 06-03) and [06-02, 06-05) give four dates
C2_Witness ==
    /\ Answered(1, 200)
    /\ calendar = <<AllDay(0, 2), AllDay(1, 4)>>
    /\ Response(1).body.fechasOcupadas
            = <<"2024-06-01", "2024-06-02", "2024-06-03", "2024-06-04">>

\* the date-time event ev covers day d by the dates written in its start and end
CoversTruncated(ev, d) ==
    DayOf(ev.start.dateTime.date) <= d /\ d < DayOf(ev.end.dateTime.date)

\* C7 as stated: a date-time event gives exactly the dates d with
\* date(start) <= d < date(end), whatever the times of day.
C7_AsStated ==
    Answered(1, 200) =>
        \A d \in Days :
            DateStrings[d + 1] \in Range(Response(1).body.fechasOcupadas)
                <=> \E i \in 1..Len(calendar) : CoversTruncated(calendar[i], d)

\* the instants start, start + 1 day, start + 2 days, ... before end
DailyInstants(start, end) == { t \in start..(end - 1) : (t - start) % 24 = 0 }

\* C7 as amended: nothing is truncated.  Every date sent is the UTC date of an
\* instant in [start, end); the UTC date of start is sent whenever start < end,
\* also when both fall on one day; and with no clock change in the server's zone
\* the dates sent are exactly the UTC dates of start + k days, k >= 0, before end.
C7_WalksInstants ==
    Answered(1, 200) =>
        LET fechas == Range(Response(1).body.fechasOcupadas)
            Start(ev) == ParseDateTime(ev.start.dateTime)
            End(ev) == ParseDateTime(ev.end.dateTime)
        IN  /\ \A f \in fechas : \E i \in 1..Len(calendar) :
                    \E t \in Start(calendar[i])..(End(calendar[i]) - 1) : ToISODate(t) = f
            /\ \A i \in 1..Len(calendar) :
                    Start(calendar[i]) < End(calendar[i])
                        => ToISODate(Start(calendar[i])) \in fechas
            /\ tz.delta = 0 =>
                    fechas = UNION { { ToISODate(t) :
                                        t \in DailyInstants(Start(calendar[i]), End(calendar[i])) } :
                                     i \in 1..Len(calendar) }

\* day 0 at 15:00 to day 2 at 18:00 gives day 0, day 1 and day 2
C7_Witness ==
    /\ Answered(1, 200)
    /\ calendar = <<[start |-> DateTime(0, 15, 0), end |-> DateTime(2, 18, 0)]>>
    /\ Response(1).body.fechasOcupadas = <<"2024-06-01", "2024-06-02", "2024-06-03">>

RequiredFields == {"checkInDate", "checkOutDate", "name", "email", "phone", "guests"}

\* field f of body b is absent (not sent, or sent as null) or empty
AbsentOrEmpty(b, f) == f \notin DOMAIN b \/ b[f] \in {Null, Str("")}

\* C3: POST /agendar with one of the six fields absent or empty is answered 400,
\* and on that path no credential is set up, no external call is made and no
\* event is created.
C3_MissingFieldRejectedBeforeAnyCall ==
    (route[1] = "/agendar" /\ \E f \in RequiredFields : AbsentOrEmpty(body[1], f)) =>
        /\ Answered(1, 400)
        /\ responses[1] = <<[status |-> 400,
                             body |-> [success |-> FALSE, message |-> "Faltan campos requeridos"]]>>
        /\ cred[1] = {}
        /\ calls[1] = <<>>
        /\ calendar = <<>>

\* a body with everything but email
C3_Witness ==
    /\ Answered(1, 400)
    /\ "email" \notin DOMAIN body[1]
    /\ \A f \in RequiredFields \ {"email"} : f \in DOMAIN body[1] /\ Truthy(body[1][f])

\* request 1 was rejected by the validation
Rejected == responses[1] # <<>> /\ Response(1).status = 400

FailedWith(error) ==
    /\ calls[1] # <<>>
    /\ calls[1][Len(calls[1])].result = [kind |-> "error", error |-> error]

PermissionHint == "Error de permisos. Verifica que el Service Account tenga acceso al calendario."
NotFoundHint   == "Calendario no encontrado. Verifica el Calendar ID."
GenericMessage == "Error al crear la reserva en el calendario"

\* credential and permission failures
AuthErrors == {ErrKeyFile, ErrCredentials, ErrForbidden}

\* the 500 of POST /agendar for error, with message
Agendar500(error, message) ==
    responses[1] = <<[status |-> 500,
                      body |-> [success |-> FALSE, error |-> error.message, message |-> message,
                                details |-> [code |-> error.code, calendarId |-> CALENDAR_ID]]]>>

\* C8 as stated: a failed POST /agendar is answered 500 with the raw message,
\* the code and the calendar id; every credential or permission failure gets the
\* permission hint, calendar-not-found its hint, anything else the generic message.
C8_AsStated ==
    \A error \in Errors :
        (Done(1) /\ FailedWith(error)) =>
            Agendar500(error, IF error \in AuthErrors THEN PermissionHint
                              ELSE IF error = ErrNotFound THEN NotFoundHint
                              ELSE GenericMessage)

\* C8 as amended: ... only a failure whose code is the number 403 gets the
\* permission hint and only one whose code is the number 404 the not-found hint;
\* every other failure, a missing key file (ENOENT) and invalid credentials (401)
\* among them, gets the generic message.
C8_HintByCode ==
    \A error \in Errors :
        (Done(1) /\ FailedWith(error)) =>
            Agendar500(error, IF error.code.t = "number" /\ error.code.v = "403" THEN PermissionHint
                              ELSE IF error.code.t = "number" /\ error.code.v = "404" THEN NotFoundHint
                              ELSE GenericMessage)

\* the key file is missing: the generic message; the service says 403: the hint
C8_Witness ==
    /\ Done(1)
    /\ FailedWith(ErrKeyFile)
    /\ Response(1).body.message = GenericMessage
    /\ Response(1).body.details.code = Str("ENOENT")

Digits == {"0", "1", "2", "3", "4", "5", "6", "7", "8", "9"}

\* code is CB-<4 digits>-<6 characters of 0-9A-Z>
WellFormedCode(code) ==
    /\ Len(code) = 14
    /\ SubSeq(code, 1, 3) = <<"C", "B", "-">>
    /\ \A i \in 4..7 : code[i] \in Digits
    /\ code[8] = "-"
    /\ \A i \in 9..14 : code[i] \in Range(UpperChars)

\* C10: every successful POST /agendar carries a reservationCode of the form
\* CB-<4-digit year>-<6 characters of 0-9A-Z>, whatever Math.random() returns.
C10_CodeWellFormed ==
    Answered(1, 200) => WellFormedCode(Response(1).body.reservationCode)

\* C5: every external calendar call goes out with the least scope it needs:
\* events.list and calendars.get with read-only scope only, events.insert alone
\* with a scope that allows writing.
C5_LeastScope ==
    \A r \in Reqs : \A i \in 1..Len(calls[r]) :
        calls[r][i].op \in {"events.list", "calendars.get"}
            => calls[r][i].scopes = {SCOPE_READONLY}

\* body b carries all six fields
Complete(b) == \A f \in RequiredFields : ~AbsentOrEmpty(b, f)

\* none of the calls of request r failed
NoFailure(r) == \A i \in 1..Len(calls[r]) : calls[r][i].result.kind # "error"

\* the calendar's event ev is for the dates of body b
SameRange(ev, b) == ev.start.date = b.checkInDate.v /\ ev.end.date = b.checkOutDate.v

\* request r asked for a reservation with a complete body and the service
\* accepted what it sent
Accepted(r) == route[r] = "/agendar" /\ Complete(body[r]) /\ Done(r) /\ NoFailure(r)

\* C6: complete POST /agendar requests for the same dates, interleaved in any
\* way, all succeed when the service accepts their inserts: each can always take
\* its next step whatever the others do, each issues its own events.insert and is
\* answered 200, and the calendar then holds one event per request for the dates.
C6_ConcurrentBothSucceed ==
    /\ \A r \in Reqs :
        (route[r] = "/agendar" /\ Complete(body[r])) =>
            /\ pc[r] = "getClient" => ENABLED AgendarInsert(r)
            /\ pc[r] = "events.insert" => ENABLED AgendarReply(r, 2024, RndLong)
            /\ Accepted(r) =>
                /\ Answered(r, 200)
                /\ Cardinality({ i \in 1..Len(calls[r]) : calls[r][i].op = "events.insert" }) = 1
                /\ \E i \in 1..Len(calendar) :
                        /\ calendar[i].id = Response(r).body.eventId
                        /\ SameRange(calendar[i], body[r])
    /\ \A r1, r2 \in Reqs :
        (r1 # r2 /\ Accepted(r1) /\ Accepted(r2)
            /\ body[r1].checkInDate = body[r2].checkInDate
            /\ body[r1].checkOutDate = body[r2].checkOutDate) =>
                /\ Response(r1).body.eventId # Response(r2).body.eventId
                /\ Cardinality({ i \in 1..Len(calendar) : SameRange(calendar[i], body[r1]) }) >= 2

\* two requests for 06-01 to 06-03, both answered 200, two events in the calendar
C6_Witness ==
    /\ Accepted(1) /\ Accepted(2)
    /\ Answered(1, 200) /\ Answered(2, 200)
    /\ body[1].checkInDate = body[2].checkInDate
    /\ body[1].checkOutDate = body[2].checkOutDate
    /\ Len(calendar) = 2
    /\ SameRange(calendar[1], body[1]) /\ SameRange(calendar[2], body[1])

\* a call of request r threw, or events.list answered without items
SomethingFailed(r) ==
    \E i \in 1..Len(calls[r]) :
        \/ calls[r][i].result.kind = "error"
        \/ /\ calls[r][i].op = "events.list"
           /\ calls[r][i].result.kind = "ok"
           /\ "items" \notin DOMAIN calls[r][i].result

\* at any moment: at most one response, exactly one once the handler is through,
\* no external call made twice, and a failure answered by a 500 payload
OneResponseNoRetry ==
    \A r \in Reqs :
        /\ Len(responses[r]) <= 1
        /\ pc[r] \in {"idle", "getClient", "events.list", "events.insert", "calendars.get", "done"}
        /\ Done(r) <=> Len(responses[r]) = 1
        /\ \A i, j \in 1..Len(calls[r]) : calls[r][i].op = calls[r][j].op => i = j
        /\ SomethingFailed(r) =>
            /\ Answered(r, 500)
            /\ Response(r).body.success = FALSE
            /\ "error" \in DOMAIN Response(r).body

\* C9: every request to the three routes whose external calls return or fail
\* ends with exactly one JSON response; any failure of credential setup, of the
\* call or of processing its result (an events.list reply without items too) is
\* answered with a 500 payload inside the handler, and no call is retried.
\* (A handler that is through stays through and a request arrives once, so
\* "every request that arrived is answered in the end" is: from some moment on,
\* every request either never arrived or is answered.)
C9_EveryRequestAnsweredOnce ==
    /\ []OneResponseNoRetry
    /\ <>[](\A r \in Reqs : pc[r] = "idle" \/ Done(r))

\* an events.list reply without items, answered 500
C9_Witness ==
    /\ Answered(1, 500)
    /\ route[1] = "/disponibilidad"
    /\ Len(calls[1]) = 2
    /\ calls[1][2].result = [kind |-> "ok"]
    /\ Response(1).body.error = ErrTypeError.message

====
